---- MODULE Spec2Model ----
(***************************************************************************)
(* Model of paperless_owner_tag_sync.py: the owner-to-tag reconciliation   *)
(* of one document (PaperlessSync.sync_document_owner_tag, the webhook     *)
(* path) and of all documents (PaperlessSync.full_sync, the scheduler      *)
(* path), running against one remote Paperless platform.                   *)
(*                                                                         *)
(* Every remote call is one step: the two paths run on different threads   *)
(* in hybrid mode and share nothing but the remote platform.               *)
(*                                                                         *)
(* Specifications:                                                         *)
(*   Spec         webhook mode and schedule mode                           *)
(*   SpecHybrid   hybrid mode                                              *)
(*   SpecWebhook  document_webhook serving one POST /webhook/document      *)
(*   SpecResolve  get_owner_tag_name on its arguments                      *)
(*   SpecExtract  extract_document_id_from_url on its argument             *)
(***************************************************************************)
EXTENDS Integers, Sequences, FiniteSets, TLC

(***************************************************************************)
(* Bounds of the model.                                                    *)
(***************************************************************************)
\* calls of sync_document_owner_tag and of full_sync in a run
MaxCalls == 2
\* failed requests and owner changes in a run
MaxEvents == 1
\* pieces of a URL given to extract_document_id_from_url
MaxUrlPieces == 4

(***************************************************************************)
(* The remote platform's data the runs are checked on.                     *)
(***************************************************************************)
\* "owner": null of a document without owner
NoOwner == 0
DocIds == {10, 11}

\* the user directory of the platform: id -> username
users_db == (1 :> "jane") @@ (2 :> "bob")

\* owners a document can have: none, a user of the directory, or the id 3
\* that the directory does not list
OwnerIds == {NoOwner} \cup DOMAIN users_db \cup {3}

\* pages of GET /api/documents/: page number -> document ids, 0 = no next page
PageDocs == (1 :> <<10>>) @@ (2 :> <<11>>)
FirstPage == 1
NextPage(p) == IF p + 1 \in DOMAIN PageDocs THEN p + 1 ELSE 0

\* the empty dict {} that get_users and get_tags return on a failed request
EmptyDict == [n \in {} |-> 0]

\* tag directories the platform can start with: name -> id
InitTagDirs ==
    { ("inbox" :> 1),
      ("inbox" :> 1) @@ ("Jane-Documents" :> 2),
      ("inbox" :> 1) @@ ("owner:bob" :> 2),
      ("inbox" :> 1) @@ ("Jane-Documents" :> 2) @@ ("owner:bob" :> 3) }

\* configurations: the tag prefix and the Owner->Tag mapping file
tag_prefix == "owner:"
Mappings ==
    { [u \in {} |-> ""],
      ("jane" :> "Jane-Documents"),
      ("jane" :> "owner:bob") }

(***************************************************************************)
(* Pure helpers of PaperlessSync.                                          *)
(***************************************************************************)
\* get_owner_tag_name with the prefix put in front of a mapped tag name too
get_owner_tag_name_PrefixAlways(prefix, mapping, username) ==
    prefix \o (IF username \in DOMAIN mapping THEN mapping[username] ELSE username)

\* get_owner_tag_name of an instance whose tag_prefix is prefix and whose
\* owner_tag_mapping is mapping
get_owner_tag_name(prefix, mapping, username) ==
    IF username \in DOMAIN mapping
    THEN mapping[username]
    ELSE prefix \o username

\* "not owner_id or owner_id not in users"
NoValidOwner(owner_id, users) ==
    owner_id = NoOwner \/ owner_id \notin DOMAIN users

\* HasTag with the membership test lost: the tag is never found
HasTag_Never(current_tag_ids, owner_tag_id) == FALSE

\* "owner_tag_id in current_tag_ids"
HasTag(current_tag_ids, owner_tag_id) ==
    \E i \in 1..Len(current_tag_ids) : current_tag_ids[i] = owner_tag_id

\* NewTagIds without the existing tags: "new_tag_ids = [owner_tag_id]"
NewTagIds_OnlyOwner(current_tag_ids, owner_tag_id) == <<owner_tag_id>>

\* "new_tag_ids = current_tag_ids + [owner_tag_id]"
NewTagIds(current_tag_ids, owner_tag_id) ==
    current_tag_ids \o <<owner_tag_id>>

TagSet(tag_ids) == { tag_ids[i] : i \in 1..Len(tag_ids) }

\* the id the platform gives to the next created tag (tags are never deleted)
FreshTagId(dir) == Cardinality(DOMAIN dir) + 1

(***************************************************************************)
(* extract_document_id_from_url(url): a URL is the sequence of its         *)
(* characters, and the two re.search calls are computed as the regular     *)
(* expression engine computes them.                                        *)
(***************************************************************************)
\* what \d matches (ASCII digits) and what int() makes of each
Digits == {"0", "1", "2", "3", "4", "5", "6", "7", "8", "9"}
DigitValue ==
    ("0" :> 0) @@ ("1" :> 1) @@ ("2" :> 2) @@ ("3" :> 3) @@ ("4" :> 4) @@
    ("5" :> 5) @@ ("6" :> 6) @@ ("7" :> 7) @@ ("8" :> 8) @@ ("9" :> 9)

\* the literal parts of the two patterns
DocumentsLit == <<"/", "d", "o", "c", "u", "m", "e", "n", "t", "s", "/">>
DocumentIdLit == <<"d", "o", "c", "u", "m", "e", "n", "t", "_", "i", "d", "=">>

\* "return None"
None == -1

\* int(match.group(1))
RECURSIVE int(_)
int(digits) ==
    IF digits = <<>>
    THEN 0
    ELSE int(SubSeq(digits, 1, Len(digits) - 1)) * 10
             + DigitValue[digits[Len(digits)]]

\* the literal lit matches at position i of url
StartsAt(url, i, lit) ==
    /\ i + Len(lit) - 1 <= Len(url)
    /\ \A k \in 1..Len(lit) : url[i + k - 1] = lit[k]

\* the characters that a greedy \d+ takes from position i on
RECURSIVE DigitRun(_, _)
DigitRun(url, i) ==
    IF i <= Len(url) /\ url[i] \in Digits THEN 1 + DigitRun(url, i + 1) ELSE 0

\* "$" without re.MULTILINE: at the end of the string, and just before a
\* newline that is the last character
AtDollar(url, j) ==
    j = Len(url) + 1 \/ (j = Len(url) /\ url[j] = "\n")

\* "/?$" from position j on
SlashDollar(url, j) ==
    \/ j <= Len(url) /\ url[j] = "/" /\ AtDollar(url, j + 1)
    \/ AtDollar(url, j)

\* the digit counts with which r'/documents/(\d+)/?$' matches at position i
DocumentsMatch(url, i) ==
    IF StartsAt(url, i, DocumentsLit)
    THEN LET d == i + Len(DocumentsLit)
         IN  { k \in 1..DigitRun(url, d) : SlashDollar(url, d + k) }
    ELSE {}

\* re.search: the leftmost position with a match, the longest \d+ there
Max(S) == CHOOSE k \in S : \A l \in S : l <= k
Min(S) == CHOOSE k \in S : \A l \in S : k <= l

\* re.search(r'/documents/(\d+)/?$', url): group(1), or <<>> for no match
SearchDocuments(url) ==
    LET at == { i \in 1..Len(url) : DocumentsMatch(url, i) # {} }
    IN  IF at = {}
        THEN <<>>
        ELSE LET i == Min(at)
                 d == i + Len(DocumentsLit)
             IN  SubSeq(url, d, d + Max(DocumentsMatch(url, i)) - 1)

\* re.search(r'document_id=(\d+)', url): group(1), or <<>> for no match
SearchDocumentId(url) ==
    LET at == { i \in 1..Len(url) :
                  /\ StartsAt(url, i, DocumentIdLit)
                  /\ DigitRun(url, i + Len(DocumentIdLit)) >= 1 }
    IN  IF at = {}
        THEN <<>>
        ELSE LET d == Min(at) + Len(DocumentIdLit)
             IN  SubSeq(url, d, d + DigitRun(url, d) - 1)

\* extract_document_id_from_url: the id as an integer, or None
extract_document_id_from_url(url) ==
    IF SearchDocuments(url) # <<>>
    THEN int(SearchDocuments(url))
    ELSE IF SearchDocumentId(url) # <<>>
         THEN int(SearchDocumentId(url))
         ELSE None

(***************************************************************************)
(* State.                                                                  *)
(*   MODE               SYNC_MODE of main(): "webhook" runs the webhook    *)
(*                      server only, "schedule" the periodic full sync     *)
(*                      only, "hybrid" both on two threads                 *)
(*   owner_tag_mapping  self.owner_tag_mapping, loaded once at startup     *)
(*   docs_db, tags_db   the platform: document id -> [owner, tags] and     *)
(*                      tag name -> tag id                                 *)
(*   sd                 the locals and position of the running             *)
(*                      sync_document_owner_tag call                       *)
(*   fs                 the locals and position of the running full_sync   *)
(*   sdh, fsh           what each call has sent and seen, kept for the     *)
(*                      properties                                         *)
(*   net                per document, the tag ids that accepted PATCH      *)
(*                      requests carried, and whether one of them was      *)
(*                      built on a tag list that was no longer current     *)
(*   env                counters of the calls made and of the failed       *)
(*                      requests and owner changes                         *)
(*   wh                 the request that document_webhook is serving and   *)
(*                      its response                                       *)
(*   probe              the arguments and the result of one call of a      *)
(*                      function that reads no remote state                *)
(***************************************************************************)
VARIABLES MODE, owner_tag_mapping, docs_db, tags_db, sd, fs, sdh, fsh, net, env,
          wh, probe

vars == <<MODE, owner_tag_mapping, docs_db, tags_db, sd, fs, sdh, fsh, net, env,
          wh, probe>>

\* what main() fixes at startup
config == <<MODE, owner_tag_mapping>>

NoDoc == [owner |-> NoOwner, tags |-> <<>>]
ZeroStats == [total |-> 0, processed |-> 0, succeeded |-> 0, failed |-> 0]

SdIdle ==
    [pc |-> "idle", document_id |-> 0, doc |-> NoDoc, users |-> EmptyDict,
     tags |-> EmptyDict, owner_tag_name |-> "", new_tag_ids |-> <<>>,
     ret |-> "none", outcome |-> "none"]

FsIdle ==
    [pc |-> "idle", next_url |-> 0, documents |-> <<>>, users |-> EmptyDict,
     tags |-> EmptyDict, stats |-> ZeroStats, i |-> 0, owner_tag_name |-> "",
     new_tag_ids |-> <<>>, returned |-> FALSE]

NoPrev ==
    [document_id |-> 0, ret |-> "none", outcome |-> "none", clean |-> TRUE,
     after |-> <<>>]

SdhInit ==
    [pre |-> <<>>, pre_dir |-> EmptyDict, calls |-> <<>>, quiet |-> TRUE,
     prev |-> NoPrev, prev_quiet |-> TRUE, after |-> <<>>]

\* no pass before this one. Of the pass before, a pass keeps whether it
\* returned failed = 0 with nobody else writing, and whether all its requests
\* succeeded
NoPass == [no_failed |-> FALSE, clean |-> FALSE]

FshInit ==
    [calls |-> <<>>, quiet |-> TRUE, outcomes |-> <<>>,
     iter |-> [tags |-> EmptyDict, from |-> 0], decided |-> <<>>,
     prev |-> NoPass]

\* no webhook request is being served, no function is being called
NoRequest == [pc |-> "none"]
NoProbe == [pc |-> "none"]

Init ==
    /\ MODE \in {"webhook", "schedule"}
    /\ owner_tag_mapping \in Mappings
    /\ tags_db \in InitTagDirs
    /\ docs_db \in [DocIds -> [owner : OwnerIds, tags : {<<>>, <<1>>}]]
    /\ sd = SdIdle
    /\ fs = FsIdle
    /\ sdh = SdhInit
    /\ fsh = FshInit
    /\ net = [patched |-> [d \in DocIds |-> {}], raced |-> [d \in DocIds |-> FALSE]]
    /\ env = [calls |-> 0, events |-> 0]
    /\ wh = NoRequest
    /\ probe = NoProbe

(***************************************************************************)
(* A remote request either gets its response or raises                     *)
(* requests.RequestException; the number of failed requests of a run is    *)
(* bounded.                                                                *)
(***************************************************************************)
MayFail == env.events < MaxEvents
Failed(ok) == IF ok THEN env ELSE [env EXCEPT !.events = @ + 1]

\* POST /api/tags/ is accepted when the request goes through and the name is
\* free: tag names are unique on the platform
CreateAccepted(tag_name, ok) == ok /\ tag_name \notin DOMAIN tags_db

\* one remote request as recorded in sdh.calls and fsh.calls
Call(kind, ok) ==
    [call |-> kind, ok |-> ok, name |-> "", existed |-> FALSE,
     doc |-> 0, tags |-> <<>>]
CreateCall(tag_name, accepted) ==
    [Call("create_tag", accepted) EXCEPT !.name = tag_name,
                                   !.existed = tag_name \in DOMAIN tags_db]
PatchCall(document_id, tag_ids, ok) ==
    [Call("update_document_tags", ok) EXCEPT !.doc = document_id,
                                             !.tags = tag_ids]

\* an accepted PATCH of document_id carrying new_tag_ids, built on the tag
\* list current_tag_ids read earlier
Patched(document_id, current_tag_ids, new_tag_ids) ==
    [net EXCEPT !.patched[document_id] = @ \cup TagSet(new_tag_ids),
                !.raced[document_id] =
                    @ \/ current_tag_ids # docs_db[document_id].tags]

\* the tag list of a document, empty for an id the platform answers 404 to
TagsOf(db, document_id) ==
    IF document_id \in DOMAIN db THEN db[document_id].tags ELSE <<>>

\* a write of the other path or of a user of the platform ends the quiet
\* period of a call
Disturbed(h) == [h EXCEPT !.quiet = FALSE]

(***************************************************************************)
(* sync_document_owner_tag(document_id): the webhook path.                 *)
(***************************************************************************)
\* "return True" / "return False" of sync_document_owner_tag
SdReturn(s, ret, outcome) ==
    [s EXCEPT !.pc = "idle", !.ret = ret, !.outcome = outcome]

\* SdAttach without the update: the tag id is looked up and True returned
SdAttach_SkipsUpdate(s) ==
    IF HasTag(s.doc.tags, s.tags[s.owner_tag_name])
    THEN SdReturn(s, "True", "AlreadyTagged")
    ELSE SdReturn(s, "True", "Updated")

\* lines 212-227 up to the request: the tag id is known, attach it if missing
SdAttach(s) ==
    LET owner_tag_id == s.tags[s.owner_tag_name]
        current_tag_ids == s.doc.tags
    IN  IF HasTag(current_tag_ids, owner_tag_id)
        THEN SdReturn(s, "True", "AlreadyTagged")
        ELSE [s EXCEPT !.pc = "update_document_tags",
                       !.new_tag_ids = NewTagIds(current_tag_ids, owner_tag_id)]

\* SdDecide without the test "username in self.owner_tag_mapping": a missing
\* tag is created whoever the owner is
SdDecide_CreatesMapped(s) ==
    LET owner_id == s.doc.owner
    IN  IF NoValidOwner(owner_id, s.users)
        THEN SdReturn(s, "True", "NoOwner")
        ELSE LET username == s.users[owner_id]
                 owner_tag_name == get_owner_tag_name(tag_prefix, owner_tag_mapping, username)
                 t == [s EXCEPT !.owner_tag_name = owner_tag_name]
             IN  IF owner_tag_name \notin DOMAIN s.tags
                 THEN [t EXCEPT !.pc = "create_tag"]
                 ELSE SdAttach(t)

\* SdDecide with "return False" for a document without valid owner
SdDecide_SkipFails(s) ==
    LET owner_id == s.doc.owner
    IN  IF NoValidOwner(owner_id, s.users)
        THEN SdReturn(s, "False", "NoOwner")
        ELSE LET username == s.users[owner_id]
                 owner_tag_name == get_owner_tag_name(tag_prefix, owner_tag_mapping, username)
                 t == [s EXCEPT !.owner_tag_name = owner_tag_name]
             IN  IF owner_tag_name \notin DOMAIN s.tags
                 THEN IF username \in DOMAIN owner_tag_mapping
                      THEN SdReturn(t, "False", "MappedTagMissing")
                      ELSE [t EXCEPT !.pc = "create_tag"]
                 ELSE SdAttach(t)

\* lines 187-212 up to the next request: owner check, tag name, tag lookup
SdDecide(s) ==
    LET owner_id == s.doc.owner
    IN  IF NoValidOwner(owner_id, s.users)
        THEN SdReturn(s, "True", "NoOwner")
        ELSE LET username == s.users[owner_id]
                 owner_tag_name == get_owner_tag_name(tag_prefix, owner_tag_mapping, username)
                 t == [s EXCEPT !.owner_tag_name = owner_tag_name]
             IN  IF owner_tag_name \notin DOMAIN s.tags
                 THEN IF username \in DOMAIN owner_tag_mapping
                      THEN SdReturn(t, "False", "MappedTagMissing")
                      ELSE [t EXCEPT !.pc = "create_tag"]
                 ELSE SdAttach(t)

\* lines 206-210: the created tag is stored and attached, or "return False"
SdCreated(s, accepted, tag_id) ==
    IF accepted
    THEN SdAttach([s EXCEPT !.tags = @ @@ (s.owner_tag_name :> tag_id)])
    ELSE SdReturn(s, "False", "TagCreateFailed")

\* lines 222-227: "return True" after the update, "return False" without it
SdUpdated(s, ok) ==
    IF ok
    THEN SdReturn(s, "True", "Updated")
    ELSE SdReturn(s, "False", "UpdateFailed")

\* the bookkeeping of a step of the call: the request it sent, and the tag
\* list of the document when the call returns
SdLog(h, s, calls) ==
    [h EXCEPT !.calls = @ \o calls,
              !.after = IF s.pc = "idle"
                        THEN TagsOf(docs_db', s.document_id)
                        ELSE @]

\* sync_document_owner_tag(document_id) is entered
SdCall(document_id) ==
    /\ MODE \in {"webhook", "hybrid"}
    /\ sd.pc = "idle"
    /\ env.calls < MaxCalls
    /\ sd' = [SdIdle EXCEPT !.pc = "get_document", !.document_id = document_id]
    /\ sdh' = [pre |-> TagsOf(docs_db, document_id),
               pre_dir |-> tags_db, calls |-> <<>>, quiet |-> TRUE,
               prev |-> [document_id |-> sd.document_id, ret |-> sd.ret,
                         outcome |-> sd.outcome,
                         clean |-> \A i \in 1..Len(sdh.calls) : sdh.calls[i].ok,
                         after |-> sdh.after],
               prev_quiet |-> sdh.quiet, after |-> <<>>]
    /\ env' = [env EXCEPT !.calls = @ + 1]
    /\ UNCHANGED <<config, probe, docs_db, tags_db, fs, fsh, net>>

\* the webhook handler calls sync_document_owner_tag(document_id) for a
\* document of the platform
SdStart(document_id) ==
    /\ SdCall(document_id)
    /\ UNCHANGED wh

\* doc = self.get_document(document_id); if not doc: return False
SdGetDocument ==
    /\ sd.pc = "get_document"
    /\ \E ok \in BOOLEAN :
        /\ ok \/ MayFail
        /\ env' = Failed(ok)
        /\ LET found == ok /\ sd.document_id \in DOMAIN docs_db
           IN  /\ sd' = IF found
                        THEN [sd EXCEPT !.pc = "get_users",
                                        !.doc = docs_db[sd.document_id]]
                        ELSE SdReturn(sd, "False", "NotFound")
               /\ UNCHANGED <<config, wh, probe, docs_db, tags_db, fs, fsh, net>>
               /\ sdh' = SdLog(sdh, sd', <<Call("get_document", found)>>)

\* users = self.get_users()
SdGetUsers ==
    /\ sd.pc = "get_users"
    /\ \E ok \in BOOLEAN :
        /\ ok \/ MayFail
        /\ env' = Failed(ok)
        /\ sd' = [sd EXCEPT !.pc = "get_tags",
                            !.users = IF ok THEN users_db ELSE EmptyDict]
        /\ UNCHANGED <<config, wh, probe, docs_db, tags_db, fs, fsh, net>>
        /\ sdh' = SdLog(sdh, sd', <<Call("get_users", ok)>>)

\* tags = self.get_tags(), then the decision up to the next request
SdGetTags ==
    /\ sd.pc = "get_tags"
    /\ \E ok \in BOOLEAN :
        /\ ok \/ MayFail
        /\ env' = Failed(ok)
        /\ sd' = SdDecide([sd EXCEPT !.tags = IF ok THEN tags_db ELSE EmptyDict])
        /\ UNCHANGED <<config, wh, probe, docs_db, tags_db, fs, fsh, net>>
        /\ sdh' = SdLog(sdh, sd', <<Call("get_tags", ok)>>)

\* tag_id = self.create_tag(owner_tag_name); if tag_id: ... else: return False
SdCreateTag ==
    /\ sd.pc = "create_tag"
    /\ \E ok \in BOOLEAN :
        /\ ok \/ MayFail
        /\ env' = Failed(ok)
        /\ LET accepted == CreateAccepted(sd.owner_tag_name, ok)
               tag_id == FreshTagId(tags_db)
           IN  /\ tags_db' = IF accepted
                             THEN tags_db @@ (sd.owner_tag_name :> tag_id)
                             ELSE tags_db
               /\ sd' = SdCreated(sd, accepted, tag_id)
               /\ fsh' = IF accepted THEN Disturbed(fsh) ELSE fsh
               /\ UNCHANGED <<config, wh, probe, docs_db, fs, net>>
               /\ sdh' = SdLog(sdh, sd', <<CreateCall(sd.owner_tag_name, accepted)>>)

\* if self.update_document_tags(document_id, new_tag_ids): return True
\* else: return False
SdUpdate ==
    /\ sd.pc = "update_document_tags"
    /\ \E ok \in BOOLEAN :
        /\ ok \/ MayFail
        /\ env' = Failed(ok)
        /\ docs_db' = IF ok
                      THEN [docs_db EXCEPT ![sd.document_id].tags = sd.new_tag_ids]
                      ELSE docs_db
        /\ sd' = SdUpdated(sd, ok)
        /\ fsh' = IF ok THEN Disturbed(fsh) ELSE fsh
        /\ net' = IF ok
                  THEN Patched(sd.document_id, sd.doc.tags, sd.new_tag_ids)
                  ELSE net
        /\ UNCHANGED <<config, wh, probe, tags_db, fs>>
        /\ sdh' = SdLog(sdh, sd', <<PatchCall(sd.document_id, sd.new_tag_ids, ok)>>)

(***************************************************************************)
(* full_sync(): the scheduler path.                                        *)
(***************************************************************************)
\* a document as GET /api/documents/ lists it
Listed(document_id) ==
    [id |-> document_id, owner |-> docs_db[document_id].owner,
     tags |-> docs_db[document_id].tags]

RECURSIVE ListedAll(_)
ListedAll(ids) ==
    IF ids = <<>> THEN <<>> ELSE <<Listed(Head(ids))>> \o ListedAll(Tail(ids))

\* "continue", or the end of the loop body: on to the next document
FsContinue(f, counter) ==
    [f EXCEPT !.pc = "for", !.i = @ + 1,
              !.stats = IF counter = "succeeded"
                        THEN [@ EXCEPT !.succeeded = @ + 1]
                        ELSE IF counter = "failed"
                        THEN [@ EXCEPT !.failed = @ + 1]
                        ELSE @]

\* FsAttach building the new list from an empty list instead of the
\* document's tags
FsAttach_FromEmpty(f) ==
    LET owner_tag_id == f.tags[f.owner_tag_name]
        current_tag_ids == f.documents[f.i].tags
    IN  IF HasTag(current_tag_ids, owner_tag_id)
        THEN FsContinue(f, "succeeded")
        ELSE [f EXCEPT !.pc = "update_document_tags",
                       !.new_tag_ids = NewTagIds(<<>>, owner_tag_id)]

\* lines 280-289 up to the request
FsAttach(f) ==
    LET owner_tag_id == f.tags[f.owner_tag_name]
        current_tag_ids == f.documents[f.i].tags
    IN  IF HasTag(current_tag_ids, owner_tag_id)
        THEN FsContinue(f, "succeeded")
        ELSE [f EXCEPT !.pc = "update_document_tags",
                       !.new_tag_ids = NewTagIds(current_tag_ids, owner_tag_id)]

\* lines 252-280 up to the next request
FsDecide(f) ==
    LET doc == f.documents[f.i]
        owner_id == doc.owner
        g == [f EXCEPT !.stats.processed = @ + 1]
    IN  IF NoValidOwner(owner_id, g.users)
        THEN FsContinue(g, "none")
        ELSE LET username == g.users[owner_id]
                 owner_tag_name == get_owner_tag_name(tag_prefix, owner_tag_mapping, username)
                 t == [g EXCEPT !.owner_tag_name = owner_tag_name]
             IN  IF owner_tag_name \notin DOMAIN t.tags
                 THEN IF username \in DOMAIN owner_tag_mapping
                      THEN FsContinue(t, "failed")
                      ELSE [t EXCEPT !.pc = "create_tag"]
                 ELSE FsAttach(t)

\* lines 238-249: the empty-list check and the initial stats
FsBegin(f) ==
    IF f.documents = <<>>
    THEN [f EXCEPT !.pc = "idle", !.stats = ZeroStats, !.returned = TRUE]
    ELSE [f EXCEPT !.pc = "for", !.i = 1,
                   !.stats = [total |-> Len(f.documents), processed |-> 0,
                              succeeded |-> 0, failed |-> 0]]

\* the counter that the step from f to g has incremented
Counted(f, g) ==
    IF g.stats.succeeded > f.stats.succeeded
    THEN "succeeded"
    ELSE IF g.stats.failed > f.stats.failed THEN "failed" ELSE "none"

\* the bookkeeping of a step of the loop body: the request it sent; the tag
\* directory the iteration started from; and, when the step has finished with
\* a document, its outcome, what the iteration worked from, the requests it
\* sent and the counter it incremented
FsLog(h, f, g, calls, outcome) ==
    LET all == h.calls \o calls
        iter == IF f.pc = "for"
                THEN [tags |-> f.tags, from |-> Len(h.calls)]
                ELSE h.iter
        finished == g.i > f.i /\ f.i > 0
    IN  [h EXCEPT !.calls = all,
                  !.outcomes = IF finished THEN @ \o <<outcome>> ELSE @,
                  !.iter = iter,
                  !.decided =
                      IF finished
                      THEN @ \o <<[doc |-> f.documents[f.i], users |-> f.users,
                                   tags |-> iter.tags,
                                   calls |-> SubSeq(all, iter.from + 1, Len(all)),
                                   counted |-> Counted(f, g)]>>
                      ELSE @]

\* the scheduler calls sync_client.full_sync()
FsStart ==
    /\ MODE \in {"schedule", "hybrid"}
    /\ fs.pc = "idle"
    /\ env.calls < MaxCalls
    /\ fs' = [FsIdle EXCEPT !.pc = "get_all_documents", !.next_url = FirstPage]
    /\ fsh' = [FshInit EXCEPT
                  !.prev = [no_failed |-> /\ fs.returned
                                          /\ fs.stats.failed = 0
                                          /\ fsh.quiet,
                            clean |-> \A i \in 1..Len(fsh.calls) : fsh.calls[i].ok]]
    /\ env' = [env EXCEPT !.calls = @ + 1]
    /\ UNCHANGED <<config, wh, probe, docs_db, tags_db, sd, sdh, net>>

\* FsGetPage returning the pages fetched so far when a later page fails
FsGetPage_KeepsPages ==
    /\ fs.pc = "get_all_documents"
    /\ \E ok \in BOOLEAN :
        /\ ok \/ MayFail
        /\ env' = Failed(ok)
        /\ fs' = IF ok
                 THEN [fs EXCEPT
                         !.documents = @ \o ListedAll(PageDocs[fs.next_url]),
                         !.next_url = NextPage(fs.next_url),
                         !.pc = IF NextPage(fs.next_url) = 0
                                THEN "get_users" ELSE "get_all_documents"]
                 ELSE [fs EXCEPT !.next_url = 0, !.pc = "get_users"]
        /\ fsh' = [fsh EXCEPT !.calls = @ \o <<Call("get_all_documents", ok)>>]
    /\ UNCHANGED <<config, wh, probe, docs_db, tags_db, sd, sdh, net>>

\* one turn of the while loop of get_all_documents
FsGetPage ==
    /\ fs.pc = "get_all_documents"
    /\ \E ok \in BOOLEAN :
        /\ ok \/ MayFail
        /\ env' = Failed(ok)
        /\ fs' = IF ok
                 THEN [fs EXCEPT
                         !.documents = @ \o ListedAll(PageDocs[fs.next_url]),
                         !.next_url = NextPage(fs.next_url),
                         !.pc = IF NextPage(fs.next_url) = 0
                                THEN "get_users" ELSE "get_all_documents"]
                 ELSE [fs EXCEPT !.documents = <<>>, !.next_url = 0,
                                 !.pc = "get_users"]
        /\ fsh' = [fsh EXCEPT !.calls = @ \o <<Call("get_all_documents", ok)>>]
    /\ UNCHANGED <<config, wh, probe, docs_db, tags_db, sd, sdh, net>>

\* users = self.get_users()
FsGetUsers ==
    /\ fs.pc = "get_users"
    /\ \E ok \in BOOLEAN :
        /\ ok \/ MayFail
        /\ env' = Failed(ok)
        /\ fs' = [fs EXCEPT !.pc = "get_tags",
                            !.users = IF ok THEN users_db ELSE EmptyDict]
        /\ fsh' = [fsh EXCEPT !.calls = @ \o <<Call("get_users", ok)>>]
    /\ UNCHANGED <<config, wh, probe, docs_db, tags_db, sd, sdh, net>>

\* tags = self.get_tags(), then the check of the document list
FsGetTags ==
    /\ fs.pc = "get_tags"
    /\ \E ok \in BOOLEAN :
        /\ ok \/ MayFail
        /\ env' = Failed(ok)
        /\ fs' = FsBegin([fs EXCEPT !.tags = IF ok THEN tags_db ELSE EmptyDict])
        /\ fsh' = [fsh EXCEPT !.calls = @ \o <<Call("get_tags", ok)>>]
    /\ UNCHANGED <<config, wh, probe, docs_db, tags_db, sd, sdh, net>>

\* "for doc in documents": the next document, or "return stats"
FsFor ==
    /\ fs.pc = "for"
    /\ IF fs.i > Len(fs.documents)
       THEN /\ fs' = [fs EXCEPT !.pc = "idle", !.returned = TRUE]
            /\ fsh' = fsh
       ELSE /\ fs' = FsDecide(fs)
            /\ fsh' = FsLog(fsh, fs, fs', <<>>,
                            IF NoValidOwner(fs.documents[fs.i].owner, fs.users)
                            THEN "NoOwner"
                            ELSE IF fs'.stats.failed > fs.stats.failed
                            THEN "MappedTagMissing" ELSE "AlreadyTagged")
    /\ UNCHANGED <<config, wh, probe, docs_db, tags_db, sd, sdh, net, env>>

\* FsCreateTag without "tags[owner_tag_name] = tag_id": the created id is
\* attached to the document but not kept for the next ones
FsCreateTag_ForgetsTag ==
    /\ fs.pc = "create_tag"
    /\ \E ok \in BOOLEAN :
        /\ ok \/ MayFail
        /\ env' = Failed(ok)
        /\ LET accepted == CreateAccepted(fs.owner_tag_name, ok)
               tag_id == FreshTagId(tags_db)
           IN  /\ tags_db' = IF accepted
                             THEN tags_db @@ (fs.owner_tag_name :> tag_id)
                             ELSE tags_db
               /\ fs' = IF accepted
                        THEN [FsAttach([fs EXCEPT !.tags = @ @@ (fs.owner_tag_name :> tag_id)])
                                 EXCEPT !.tags = fs.tags]
                        ELSE FsContinue(fs, "failed")
               /\ sdh' = IF accepted THEN Disturbed(sdh) ELSE sdh
               /\ fsh' = FsLog(fsh, fs, fs', <<CreateCall(fs.owner_tag_name, accepted)>>,
                               IF accepted THEN "AlreadyTagged" ELSE "TagCreateFailed")
    /\ UNCHANGED <<config, wh, probe, docs_db, sd, net>>

\* tag_id = self.create_tag(owner_tag_name) of the loop body
FsCreateTag ==
    /\ fs.pc = "create_tag"
    /\ \E ok \in BOOLEAN :
        /\ ok \/ MayFail
        /\ env' = Failed(ok)
        /\ LET accepted == CreateAccepted(fs.owner_tag_name, ok)
               tag_id == FreshTagId(tags_db)
           IN  /\ tags_db' = IF accepted
                             THEN tags_db @@ (fs.owner_tag_name :> tag_id)
                             ELSE tags_db
               /\ fs' = IF accepted
                        THEN FsAttach([fs EXCEPT !.tags = @ @@ (fs.owner_tag_name :> tag_id)])
                        ELSE FsContinue(fs, "failed")
               /\ sdh' = IF accepted THEN Disturbed(sdh) ELSE sdh
               /\ fsh' = FsLog(fsh, fs, fs', <<CreateCall(fs.owner_tag_name, accepted)>>,
                               IF accepted THEN "AlreadyTagged" ELSE "TagCreateFailed")
    /\ UNCHANGED <<config, wh, probe, docs_db, sd, net>>

\* self.update_document_tags(document_id, new_tag_ids) of the loop body
FsUpdate ==
    /\ fs.pc = "update_document_tags"
    /\ \E ok \in BOOLEAN :
        /\ ok \/ MayFail
        /\ env' = Failed(ok)
        /\ fs' = FsContinue(fs, IF ok THEN "succeeded" ELSE "failed")
        /\ sdh' = IF ok THEN Disturbed(sdh) ELSE sdh
        /\ LET document_id == fs.documents[fs.i].id
           IN  /\ docs_db' = IF ok
                             THEN [docs_db EXCEPT ![document_id].tags = fs.new_tag_ids]
                             ELSE docs_db
               /\ fsh' = FsLog(fsh, fs, fs', <<PatchCall(document_id, fs.new_tag_ids, ok)>>,
                               IF ok THEN "Updated" ELSE "UpdateFailed")
               /\ net' = IF ok
                         THEN Patched(document_id, fs.documents[fs.i].tags,
                                      fs.new_tag_ids)
                         ELSE net
    /\ UNCHANGED <<config, wh, probe, tags_db, sd>>

(***************************************************************************)
(* A user of the platform gives a document another owner: the change the   *)
(* webhook notifies.                                                       *)
(***************************************************************************)
ChangeOwner ==
    /\ env.events < MaxEvents
    /\ \E document_id \in DocIds, owner_id \in OwnerIds :
        /\ owner_id # docs_db[document_id].owner
        /\ docs_db' = [docs_db EXCEPT ![document_id].owner = owner_id]
    /\ env' = [env EXCEPT !.events = @ + 1]
    /\ sdh' = Disturbed(sdh)
    /\ fsh' = Disturbed(fsh)
    /\ UNCHANGED <<config, wh, probe, tags_db, sd, fs, net>>

(***************************************************************************)
(* Webhook mode and schedule mode: one path runs, and users of the         *)
(* platform change owners at any moment.                                   *)
(***************************************************************************)
Next ==
    \/ \E document_id \in DocIds : SdStart(document_id)
    \/ SdGetDocument
    \/ SdGetUsers
    \/ SdGetTags
    \/ SdCreateTag
    \/ SdUpdate
    \/ FsStart
    \/ FsGetPage
    \/ FsGetUsers
    \/ FsGetTags
    \/ FsFor
    \/ FsCreateTag
    \/ FsUpdate
    \/ ChangeOwner

Spec == Init /\ [][Next]_vars

(***************************************************************************)
(* Hybrid mode: the webhook thread and the scheduler thread run with no    *)
(* lock between them.                                                      *)
(***************************************************************************)
InitHybrid ==
    /\ MODE = "hybrid"
    /\ owner_tag_mapping \in Mappings
    /\ tags_db = ("inbox" :> 1)
    /\ docs_db = (10 :> [owner |-> 1, tags |-> <<1>>]) @@
                 (11 :> [owner |-> 2, tags |-> <<>>])
    /\ sd = SdIdle
    /\ fs = FsIdle
    /\ sdh = SdhInit
    /\ fsh = FshInit
    /\ net = [patched |-> [d \in DocIds |-> {}], raced |-> [d \in DocIds |-> FALSE]]
    /\ env = [calls |-> 0, events |-> 0]
    /\ wh = NoRequest
    /\ probe = NoProbe

SpecHybrid == InitHybrid /\ [][Next]_vars

(***************************************************************************)
(* The platform and both paths at rest: the state around a call of a       *)
(* function that reads no remote state.                                    *)
(***************************************************************************)
AtRest ==
    /\ MODE = "webhook"
    /\ tags_db = ("inbox" :> 1)
    /\ docs_db = [d \in DocIds |-> NoDoc]
    /\ sd = SdIdle
    /\ fs = FsIdle
    /\ sdh = SdhInit
    /\ fsh = FshInit
    /\ net = [patched |-> [d \in DocIds |-> {}], raced |-> [d \in DocIds |-> FALSE]]
    /\ env = [calls |-> 0, events |-> 0]
    /\ wh = NoRequest

(***************************************************************************)
(* get_owner_tag_name(username) on instances of every prefix and mapping.  *)
(***************************************************************************)
\* OWNER_TAG_PREFIX values, the default "owner:" and the empty prefix included
Prefixes == {"owner:", "", "o-", "Jane-"}

\* usernames, mapped ones, unmapped ones and the empty one
Usernames == {"jane", "bob", "john", "admin", "", "Documents"}

\* owner_tag_mapping.json files: those of the runs, the example of the
\* configuration and one that maps a user to the user's own name
MappingFiles ==
    Mappings \cup
    { ("john" :> "John-Folder") @@ ("jane" :> "Jane-Documents") @@
          ("admin" :> "Admin-Files"),
      ("bob" :> "bob") }

InitResolve ==
    /\ AtRest
    /\ owner_tag_mapping \in MappingFiles
    /\ probe \in [pc : {"get_owner_tag_name"}, tag_prefix : Prefixes,
                  username : Usernames, result : {""}]

ResolveTagName ==
    /\ probe.pc = "get_owner_tag_name"
    /\ probe' = [probe EXCEPT
                    !.pc = "returned",
                    !.result = get_owner_tag_name(probe.tag_prefix,
                                                  owner_tag_mapping,
                                                  probe.username)]
    /\ UNCHANGED <<config, wh, docs_db, tags_db, sd, fs, sdh, fsh, net, env>>

NextResolve == ResolveTagName

SpecResolve == InitResolve /\ [][NextResolve]_vars

(***************************************************************************)
(* extract_document_id_from_url(url) on the URLs made of a few pieces and  *)
(* on the URLs of the documentation.                                       *)
(***************************************************************************)
\* pieces a URL is put together from: the literals of the two patterns, a
\* slash, digits, another character and a newline
UrlPieces ==
    { DocumentsLit, DocumentIdLit, <<"/">>, <<"5">>, <<"0">>, <<"x">>,
      <<"\n">> }

\* the URLs of at most n pieces
RECURSIVE UrlsOf(_)
UrlsOf(n) ==
    IF n = 0
    THEN {<<>>}
    ELSE LET shorter == UrlsOf(n - 1)
         IN  shorter \cup { u \o p : u \in shorter, p \in UrlPieces }

\* "https://host/documents/55/", "https://host/api?document_id=77" and
\* "https://host/other"
DocumentUrl55 ==
    <<"h", "t", "t", "p", "s", ":", "/", "/", "h", "o", "s", "t", "/", "d",
      "o", "c", "u", "m", "e", "n", "t", "s", "/", "5", "5", "/">>
QueryUrl77 ==
    <<"h", "t", "t", "p", "s", ":", "/", "/", "h", "o", "s", "t", "/", "a",
      "p", "i", "?", "d", "o", "c", "u", "m", "e", "n", "t", "_", "i", "d",
      "=", "7", "7">>
OtherUrl ==
    <<"h", "t", "t", "p", "s", ":", "/", "/", "h", "o", "s", "t", "/", "o",
      "t", "h", "e", "r">>

Urls == UrlsOf(MaxUrlPieces) \cup {DocumentUrl55, QueryUrl77, OtherUrl}

InitExtract ==
    /\ AtRest
    /\ owner_tag_mapping = [u \in {} |-> ""]
    /\ probe \in [pc : {"extract_document_id_from_url"}, url : Urls,
                  result : {None}]

ExtractDocumentId ==
    /\ probe.pc = "extract_document_id_from_url"
    /\ probe' = [probe EXCEPT
                    !.pc = "returned",
                    !.result = extract_document_id_from_url(probe.url)]
    /\ UNCHANGED <<config, wh, docs_db, tags_db, sd, fs, sdh, fsh, net, env>>

NextExtract == ExtractDocumentId

SpecExtract == InitExtract /\ [][NextExtract]_vars

(***************************************************************************)
(* POST /webhook/document: document_webhook serves one request.            *)
(***************************************************************************)
\* request.get_json(): null, a JSON object (its fields) or a non-empty array
JsonNull == [type |-> "null", fields |-> [f \in {} |-> <<>>]]
JsonObject(fields) == [type |-> "object", fields |-> fields]
JsonArray == [type |-> "array", fields |-> [f \in {} |-> <<>>]]

\* ".../documents/10/", ".../api?document_id=11" and ".../documents/0"
DocumentUrl10 ==
    <<"h", "t", "t", "p", "s", ":", "/", "/", "h", "o", "s", "t", "/", "d",
      "o", "c", "u", "m", "e", "n", "t", "s", "/", "1", "0", "/">>
QueryUrl11 ==
    <<"h", "t", "t", "p", "s", ":", "/", "/", "h", "o", "s", "t", "/", "a",
      "p", "i", "?", "d", "o", "c", "u", "m", "e", "n", "t", "_", "i", "d",
      "=", "1", "1">>
DocumentUrl0 ==
    <<"h", "t", "t", "p", "s", ":", "/", "/", "h", "o", "s", "t", "/", "d",
      "o", "c", "u", "m", "e", "n", "t", "s", "/", "0">>

\* bodies of the requests: no JSON, {}, an object without url, an empty url,
\* an array, and urls of documents 10 and 11, of no document, of the ids 0
\* and 55 that the platform has no document for
Payloads ==
    { JsonNull,
      JsonObject([f \in {} |-> <<>>]),
      JsonObject("title" :> <<"x">>),
      JsonObject("url" :> <<>>),
      JsonArray }
    \cup { JsonObject("url" :> u) :
             u \in {DocumentUrl10, QueryUrl11, OtherUrl, DocumentUrl0,
                    DocumentUrl55} }

\* "not data": None, {} and [] are falsy
Falsy(data) ==
    data.type = "null" \/ (data.type = "object" /\ DOMAIN data.fields = {})

\* data.get('url') as the test "not document_url" sees it: a missing field
\* (None) and the empty string are both falsy
UrlOf(data) ==
    IF "url" \in DOMAIN data.fields THEN data.fields["url"] ELSE <<>>

Reply(status, message) ==
    [status |-> status, message |-> message, document_id |-> None]

\* WebhookReply with a missing url rejected like an invalid one
WebhookReply_NoUrlRejected(data) ==
    IF Falsy(data)
    THEN Reply(400, "No JSON data received")
    ELSE IF data.type # "object"
         THEN Reply(500, "exception")
         ELSE LET document_id == extract_document_id_from_url(UrlOf(data))
              IN  IF UrlOf(data) = <<>> \/ document_id = None \/ document_id = 0
                  THEN Reply(400, "Invalid document URL")
                  ELSE [status |-> 0, message |-> "",
                        document_id |-> document_id]

\* lines 323-341: the response sent before any remote call, or status 0 and
\* the document id to reconcile. data.get of a body that is no object raises
\* AttributeError, which the handler answers with 500
WebhookReply(data) ==
    IF Falsy(data)
    THEN Reply(400, "No JSON data received")
    ELSE IF data.type # "object"
         THEN Reply(500, "exception")
         ELSE IF UrlOf(data) = <<>>
              THEN Reply(200, "ignored")
              ELSE LET document_id == extract_document_id_from_url(UrlOf(data))
                   IN  IF document_id = None \/ document_id = 0
                       THEN Reply(400, "Invalid document URL")
                       ELSE [status |-> 0, message |-> "",
                             document_id |-> document_id]

\* the request arrives: it is answered at once, or
\* sync_document_owner_tag(document_id) is called
document_webhook ==
    /\ wh.pc = "request"
    /\ LET reply == WebhookReply(wh.data)
       IN  IF reply.status # 0
           THEN /\ wh' = [wh EXCEPT !.pc = "responded",
                                    !.status = reply.status,
                                    !.message = reply.message]
                /\ UNCHANGED <<config, probe, docs_db, tags_db, sd, fs, sdh,
                               fsh, net, env>>
           ELSE /\ wh' = [wh EXCEPT !.pc = "sync_document_owner_tag",
                                    !.document_id = reply.document_id]
                /\ SdCall(reply.document_id)

\* "if success:" 200 with status success, else 500 with status error
document_webhook_return ==
    /\ wh.pc = "sync_document_owner_tag"
    /\ sd.pc = "idle"
    /\ sd.ret # "none"
    /\ wh' = [wh EXCEPT !.pc = "responded",
                        !.status = IF sd.ret = "True" THEN 200 ELSE 500,
                        !.message = IF sd.ret = "True" THEN "success"
                                                       ELSE "error"]
    /\ UNCHANGED <<config, probe, docs_db, tags_db, sd, fs, sdh, fsh, net, env>>

InitWebhook ==
    /\ MODE = "webhook"
    /\ owner_tag_mapping \in Mappings
    /\ tags_db \in InitTagDirs
    /\ docs_db = (10 :> [owner |-> 1, tags |-> <<1>>]) @@
                 (11 :> [owner |-> 2, tags |-> <<>>])
    /\ sd = SdIdle
    /\ fs = FsIdle
    /\ sdh = SdhInit
    /\ fsh = FshInit
    /\ net = [patched |-> [d \in DocIds |-> {}], raced |-> [d \in DocIds |-> FALSE]]
    /\ env = [calls |-> 0, events |-> 0]
    /\ wh \in [pc : {"request"}, data : Payloads, status : {0},
               message : {""}, document_id : {None}]
    /\ probe = NoProbe

NextWebhook ==
    \/ document_webhook
    \/ SdGetDocument
    \/ SdGetUsers
    \/ SdGetTags
    \/ SdCreateTag
    \/ SdUpdate
    \/ document_webhook_return

SpecWebhook == InitWebhook /\ [][NextWebhook]_vars

(***************************************************************************)
(* Vocabulary of the properties.                                           *)
(***************************************************************************)
\* the call has returned and nobody else has written to the platform since
\* it started
SdReturned == sd.pc = "idle" /\ sd.ret # "none" /\ sdh.quiet

AllOk(calls) == \A i \in 1..Len(calls) : calls[i].ok
SomeFailed(calls) == \E i \in 1..Len(calls) : ~calls[i].ok
Sent(calls, kind) == \E i \in 1..Len(calls) : calls[i].call = kind
FailedCall(calls, kind) ==
    \E i \in 1..Len(calls) : calls[i].call = kind /\ ~calls[i].ok
Kinds(calls) == [i \in 1..Len(calls) |-> calls[i].call]

NoDuplicate(tag_ids) ==
    \A i, j \in 1..Len(tag_ids) : tag_ids[i] = tag_ids[j] => i = j

\* the call wrote nothing: no POST /api/tags/, no PATCH, platform as before
SdWroteNothing ==
    /\ ~Sent(sdh.calls, "create_tag")
    /\ ~Sent(sdh.calls, "update_document_tags")
    /\ tags_db = sdh.pre_dir
    /\ sdh.after = sdh.pre

\* the second of two calls for the same document has returned, and nobody
\* else has written to the platform since the first one started
SdTwice ==
    /\ SdReturned
    /\ sdh.prev.document_id = sd.document_id
    /\ sdh.prev.ret # "none"
    /\ sdh.prev_quiet
    /\ sdh.quiet

C2_Additive ==
    SdReturned =>
        /\ TagSet(sdh.pre) \subseteq TagSet(sdh.after)
        /\ \/ sdh.after = sdh.pre
           \/ /\ Len(sdh.after) = Len(sdh.pre) + 1
              /\ SubSeq(sdh.after, 1, Len(sdh.pre)) = sdh.pre

\* a document that had a tag got its owner tag appended
C2_Witness ==
    /\ SdReturned
    /\ sd.outcome = "Updated"
    /\ sdh.pre = <<1>>
    /\ Len(sdh.after) = 2

(***************************************************************************)
(* C3: with the two paths running concurrently a tag id that an accepted   *)
(* PATCH wrote to a document can be missing from it afterwards, and this    *)
(* happens only when an accepted PATCH of that document carried a list     *)
(* built on a tag list that was no longer the current one.                 *)
(***************************************************************************)
LostUpdate(document_id) ==
    \E t \in net.patched[document_id] : t \notin TagSet(docs_db[document_id].tags)

C3_LostOnlyByStalePatch ==
    \A document_id \in DocIds : LostUpdate(document_id) => net.raced[document_id]

\* both paths have patched the document, and an id one of them wrote is gone
C3_Witness ==
    \E document_id \in DocIds :
        /\ LostUpdate(document_id)
        /\ \E i \in 1..Len(sdh.calls) :
               /\ sdh.calls[i].call = "update_document_tags"
               /\ sdh.calls[i].ok
               /\ sdh.calls[i].doc = document_id
        /\ \E i \in 1..Len(fsh.calls) :
               /\ fsh.calls[i].call = "update_document_tags"
               /\ fsh.calls[i].ok
               /\ fsh.calls[i].doc = document_id

(***************************************************************************)
(* C4: when the owner of the fetched document is a user of the fetched     *)
(* directory whose username has a mapping entry, and the mapped name is    *)
(* not in the fetched tag directory, the call returns False                *)
(* (MappedTagMissing) and has written nothing.                             *)
(***************************************************************************)
SdMappedTagMissing ==
    /\ SdReturned
    /\ Len(sdh.calls) >= 3
    /\ ~NoValidOwner(sd.doc.owner, sd.users)
    /\ sd.users[sd.doc.owner] \in DOMAIN owner_tag_mapping
    /\ owner_tag_mapping[sd.users[sd.doc.owner]] \notin DOMAIN sd.tags

C4_MappedTagMissing ==
    SdMappedTagMissing =>
        /\ sd.ret = "False"
        /\ sd.outcome = "MappedTagMissing"
        /\ SdWroteNothing

\* jane is mapped to a tag that the platform does not have
C4_Witness ==
    /\ SdMappedTagMissing
    /\ AllOk(sdh.calls)
    /\ sd.owner_tag_name = "Jane-Documents"
    /\ "Jane-Documents" \notin DOMAIN tags_db

(***************************************************************************)
(* C5: for an owner without mapping entry whose tag prefix + username does *)
(* not exist, and with every request succeeding, the call creates the tag, *)
(* then patches the document, returns True, and the tag list is the        *)
(* previous list plus the id of the new tag; when the creation fails the   *)
(* call returns False (TagCreateFailed) and sends no PATCH.                *)
(***************************************************************************)
SdAutoCreate ==
    /\ SdReturned
    /\ Len(sdh.calls) >= 3
    /\ AllOk(sdh.calls)
    /\ ~NoValidOwner(sd.doc.owner, users_db)
    /\ users_db[sd.doc.owner] \notin DOMAIN owner_tag_mapping
    /\ (tag_prefix \o users_db[sd.doc.owner]) \notin DOMAIN sdh.pre_dir

C5_AutoCreate ==
    /\ SdAutoCreate =>
          LET tag_name == tag_prefix \o users_db[sd.doc.owner]
          IN  /\ sd.ret = "True"
              /\ Kinds(sdh.calls) = <<"get_document", "get_users", "get_tags",
                                      "create_tag", "update_document_tags">>
              /\ sdh.calls[4].name = tag_name
              /\ tag_name \in DOMAIN tags_db
              /\ \A n \in DOMAIN sdh.pre_dir : sdh.pre_dir[n] # tags_db[tag_name]
              /\ sdh.after = sdh.pre \o <<tags_db[tag_name]>>
    /\ (SdReturned /\ FailedCall(sdh.calls, "create_tag")) =>
          /\ sd.ret = "False"
          /\ sd.outcome = "TagCreateFailed"
          /\ ~Sent(sdh.calls, "update_document_tags")
          /\ sdh.after = sdh.pre

\* bob has no mapping entry and no tag: "owner:bob" is created and attached
\* to a document that had a tag
C5_Witness ==
    /\ SdAutoCreate
    /\ sd.owner_tag_name = "owner:bob"
    /\ sdh.pre = <<1>>
    /\ Len(sdh.after) = 2

(***************************************************************************)
(* C6: if a remote request of sync_document_owner_tag fails, the call      *)
(* returns False, and no request is sent twice in one call.                *)
(***************************************************************************)
C6_FailedCallFails ==
    (SdReturned /\ SomeFailed(sdh.calls)) =>
        /\ sd.ret = "False"
        /\ \A i, j \in 1..Len(sdh.calls) :
               sdh.calls[i].call = sdh.calls[j].call => i = j

(***************************************************************************)
(* C7: when the fetched document has no owner, or an owner that is not a   *)
(* key of the fetched user directory, the call writes nothing and returns  *)
(* True (skipped: no owner).                                               *)
(***************************************************************************)
SdNoOwner ==
    /\ SdReturned
    /\ Len(sdh.calls) >= 1
    /\ sdh.calls[1].ok
    /\ NoValidOwner(sd.doc.owner, sd.users)

C7_NoOwnerSkip ==
    SdNoOwner =>
        /\ sd.ret = "True"
        /\ sd.outcome = "NoOwner"
        /\ Kinds(sdh.calls) = <<"get_document", "get_users", "get_tags">>
        /\ SdWroteNothing

\* the owner id 3 is not in the directory that was fetched
C7_Witness ==
    /\ SdNoOwner
    /\ AllOk(sdh.calls)
    /\ sd.doc.owner = 3
    /\ sd.users = users_db

(***************************************************************************)
(* C8: when full_sync returns after the loop, processed = total, and every *)
(* document was counted once as succeeded (no owner, already tagged,       *)
(* updated) or once as failed (mapped tag missing, tag creation failed,    *)
(* update failed), so succeeded + failed = processed.                      *)
(***************************************************************************)
FsReturned == fs.pc = "idle" /\ fs.returned

Count(outcomes, labels) ==
    Cardinality({i \in 1..Len(outcomes) : outcomes[i] \in labels})

C8_Counts ==
    (FsReturned /\ fs.documents # <<>>) =>
        /\ fs.stats.processed = fs.stats.total
        /\ fs.stats.succeeded =
               Count(fsh.outcomes, {"NoOwner", "AlreadyTagged", "Updated"})
        /\ fs.stats.failed =
               Count(fsh.outcomes, {"MappedTagMissing", "TagCreateFailed", "UpdateFailed"})
        /\ fs.stats.succeeded + fs.stats.failed = fs.stats.processed

(***************************************************************************)
(* C9: when a page of the document collection cannot be fetched, the first *)
(* or a later one, full_sync returns zero counts and sends no POST and no  *)
(* PATCH, also for the documents of the pages it had fetched.              *)
(***************************************************************************)
FsWroteNothing ==
    /\ ~Sent(fsh.calls, "create_tag")
    /\ ~Sent(fsh.calls, "update_document_tags")

C9_DocumentFetchFails ==
    FailedCall(fsh.calls, "get_all_documents") =>
        /\ FsWroteNothing
        /\ fs.pc \in {"get_users", "get_tags", "idle"}
        /\ FsReturned => fs.stats = ZeroStats

\* the second page failed after the first one had been fetched
C9_Witness ==
    /\ FsReturned
    /\ Len(fsh.calls) = 4
    /\ fsh.calls[1].call = "get_all_documents" /\ fsh.calls[1].ok
    /\ fsh.calls[2].call = "get_all_documents" /\ ~fsh.calls[2].ok

(***************************************************************************)
(* C10: when the documents were fetched and the fetch of the users or of   *)
(* the tags fails, full_sync returns a zero total and sends no POST and no *)
(* PATCH.                                                                  *)
(***************************************************************************)
C10_DirectoryFetchFails ==
    (/\ FsReturned
     /\ ~FailedCall(fsh.calls, "get_all_documents")
     /\ FailedCall(fsh.calls, "get_users") \/ FailedCall(fsh.calls, "get_tags")) =>
        /\ fs.stats.total = 0
        /\ FsWroteNothing

(***************************************************************************)
(* C11. Tag-name resolution: get_owner_tag_name(u) is M[u] when u is a key *)
(* of the mapping M, whatever the prefix p is, and p followed by u when it *)
(* is not; it returns a name for every u.                                  *)
(***************************************************************************)
C11_ResolveTagName ==
    probe.pc = "returned" =>
        LET u == probe.username
            p == probe.tag_prefix
            M == owner_tag_mapping
        IN  /\ u \in DOMAIN M => probe.result = M[u]
            /\ u \notin DOMAIN M => probe.result = p \o u

\* a mapped user resolved on an instance with a non-empty prefix
C11_Witness ==
    /\ probe.pc = "returned"
    /\ probe.username \in DOMAIN owner_tag_mapping
    /\ probe.tag_prefix = "owner:"
    /\ probe.result = "Jane-Documents"

(***************************************************************************)
(* C12. Webhook responses.                                                 *)
(***************************************************************************)
\* the request has been answered
Responded == wh.pc = "responded"

\* no reconciliation was attempted: sync_document_owner_tag was not called
\* and no remote request was sent
NoReconciliation ==
    /\ sd = SdIdle
    /\ sdh.calls = <<>>
    /\ env.calls = 0

\* the body is a JSON object or nothing at all
ObjectOrNothing == wh.data.type \in {"null", "object"}
NoUrlField == "url" \notin DOMAIN wh.data.fields
NoDocumentId ==
    /\ "url" \in DOMAIN wh.data.fields
    /\ extract_document_id_from_url(wh.data.fields["url"]) = None

\* C12 as claimed: a request whose JSON body has no url field, or whose url
\* yields no document id, is answered 400 and no reconciliation is
\* attempted; a request whose reconciliation succeeds is answered 200, one
\* whose reconciliation fails 500.
C12_NoUrlRejected ==
    Responded /\ ObjectOrNothing =>
        /\ NoUrlField \/ NoDocumentId =>
               wh.status = 400 /\ NoReconciliation
        /\ sd.ret = "True" => wh.status = 200
        /\ sd.ret = "False" => wh.status = 500

\* C12 as the handler answers: an empty body, and a url that yields no
\* document id or the id 0, are answered 400; a non-empty object with no url
\* or an empty url is answered 200 "ignored"; none of them is reconciled.
\* A request whose reconciliation succeeds is answered 200, one whose
\* reconciliation fails 500.
C12_WebhookResponses ==
    Responded /\ ObjectOrNothing =>
        LET data == wh.data
            url == UrlOf(data)
            document_id == extract_document_id_from_url(url)
        IN  /\ Falsy(data) => wh.status = 400 /\ NoReconciliation
            /\ ~Falsy(data) /\ url = <<>> =>
                   wh.status = 200 /\ wh.message = "ignored" /\ NoReconciliation
            /\ ~Falsy(data) /\ url # <<>> /\ document_id \in {None, 0} =>
                   wh.status = 400 /\ NoReconciliation
            /\ ~Falsy(data) /\ url # <<>> /\ document_id \notin {None, 0} =>
                   /\ sd.document_id = document_id
                   /\ sd.ret = "True" => wh.status = 200
                   /\ sd.ret = "False" => wh.status = 500
                   /\ sd.ret # "none"

\* a non-empty body without url field has been answered
C12_Witness ==
    /\ Responded
    /\ ~Falsy(wh.data)
    /\ NoUrlField
    /\ wh.status = 200
    /\ NoReconciliation

(***************************************************************************)
(* C13. Document-id extraction.                                            *)
(***************************************************************************)
AllDigits(n) == n # <<>> /\ \A k \in 1..Len(n) : n[k] \in Digits

\* the digit strings n such that url ends in /documents/n/ or /documents/n
EndingIds(url) ==
    { n \in UNION { LET rest == SubSeq(url, i + Len(DocumentsLit), Len(url))
                    IN  {rest} \cup
                        IF rest # <<>> /\ rest[Len(rest)] = "/"
                        THEN {SubSeq(rest, 1, Len(rest) - 1)}
                        ELSE {}
                    : i \in { j \in 1..Len(url) : StartsAt(url, j, DocumentsLit) } } :
        AllDigits(n) }

\* the digit strings m such that url contains document_id=m, m as long as
\* the digits go
QueryIds(url) ==
    { SubSeq(url, i + Len(DocumentIdLit),
             i + Len(DocumentIdLit) + DigitRun(url, i + Len(DocumentIdLit)) - 1)
      : i \in { j \in 1..Len(url) :
                  /\ StartsAt(url, j, DocumentIdLit)
                  /\ DigitRun(url, j + Len(DocumentIdLit)) >= 1 } }

Extracted == probe.pc = "returned" /\ "url" \in DOMAIN probe

\* C13 as claimed: extract_document_id_from_url returns n when url ends in
\* /documents/n/ or /documents/n; otherwise m when url contains
\* document_id=m; none when neither occurs; 55, 77 and none for the three
\* URLs of the documentation.
C13_ExtractId ==
    Extracted =>
        LET url == probe.url
        IN  /\ EndingIds(url) # {} =>
                   \E n \in EndingIds(url) : probe.result = int(n)
            /\ EndingIds(url) = {} /\ QueryIds(url) # {} =>
                   \E m \in QueryIds(url) : probe.result = int(m)
            /\ EndingIds(url) = {} /\ QueryIds(url) = {} => probe.result = None
            /\ url = DocumentUrl55 => probe.result = 55
            /\ url = QueryUrl77 => probe.result = 77
            /\ url = OtherUrl => probe.result = None

(***************************************************************************)
(* C14. Mapped tags are never created.                                     *)
(***************************************************************************)
\* the create-tag requests that the running or last call of either path has
\* sent; as every request is in these logs in the state it is sent in, a
\* property of them in every state is a property of every request of the run
CreatesSent ==
    { sdh.calls[i] : i \in { j \in 1..Len(sdh.calls) :
                               sdh.calls[j].call = "create_tag" } }
    \cup
    { fsh.calls[i] : i \in { j \in 1..Len(fsh.calls) :
                               fsh.calls[j].call = "create_tag" } }

\* the tag names that the mapping assigns to a user
MappedTagNames == { owner_tag_mapping[u] : u \in DOMAIN owner_tag_mapping }

\* the names prefix + username of the users without mapping entry
UnmappedTagNames ==
    { tag_prefix \o users_db[o] :
        o \in { p \in DOMAIN users_db : users_db[p] \notin DOMAIN owner_tag_mapping } }

\* the owner's username of the document that a path is about to send a
\* create-tag request for
SdCreating == sd.pc = "create_tag"
FsCreating == fs.pc = "create_tag"
SdUsername == sd.users[sd.doc.owner]
FsUsername == fs.users[fs.documents[fs.i].owner]

\* C14 as claimed: no create-tag request is ever sent whose name is a tag
\* name that the mapping assigns to a user.
C14_NoMappedNameCreated ==
    \A c \in CreatesSent : c.name \notin MappedTagNames

\* C14 as the code keeps it: no create-tag request is sent for a document
\* whose owner has a mapping entry; every create-tag request carries the
\* prefix followed by the username of an owner without mapping entry.
C14_NoMappedOwnerCreates ==
    /\ SdCreating => /\ SdUsername \notin DOMAIN owner_tag_mapping
                     /\ sd.owner_tag_name = tag_prefix \o SdUsername
    /\ FsCreating => /\ FsUsername \notin DOMAIN owner_tag_mapping
                     /\ fs.owner_tag_name = tag_prefix \o FsUsername
    /\ \A c \in CreatesSent : c.name \in UnmappedTagNames

\* a tag has been created under a name that the mapping assigns to another
\* user
C14_Witness ==
    \E c \in CreatesSent : c.ok /\ c.name \in MappedTagNames

(***************************************************************************)
(* C15. Tag reuse within one full_sync pass.                               *)
(***************************************************************************)
\* the tag name that the pass resolves the owner of a listed document to,
\* "" for a document it skips
FsResolved(document_id) ==
    LET listed == { k \in 1..Len(fs.documents) : fs.documents[k].id = document_id }
    IN  IF listed = {}
        THEN ""
        ELSE LET doc == fs.documents[CHOOSE k \in listed : TRUE]
             IN  IF NoValidOwner(doc.owner, fs.users)
                 THEN ""
                 ELSE get_owner_tag_name(tag_prefix, owner_tag_mapping,
                                         fs.users[doc.owner])

\* the requests of the pass after its accepted create-tag request number i
CreatedAt(i) == fsh.calls[i].call = "create_tag" /\ fsh.calls[i].ok
Later(i) == (i + 1)..Len(fsh.calls)

\* C15. In one pass of full_sync at most one create-tag request succeeds per
\* tag name; after the successful creation of the tag named n no further
\* create-tag request for n is sent, and every later document of the pass
\* whose owner resolves to n is patched with the created id.
C15_TagReuse ==
    \A i \in 1..Len(fsh.calls) :
        CreatedAt(i) =>
            LET n == fsh.calls[i].name
            IN  /\ \A j \in Later(i) :
                       ~(fsh.calls[j].call = "create_tag" /\ fsh.calls[j].name = n)
                /\ ~(FsCreating /\ fs.owner_tag_name = n)
                /\ n \in DOMAIN fs.tags
                /\ n \in DOMAIN tags_db
                /\ fs.tags[n] = tags_db[n]
                /\ \A j \in Later(i) :
                       /\ fsh.calls[j].call = "update_document_tags"
                       /\ FsResolved(fsh.calls[j].doc) = n
                       => tags_db[n] \in TagSet(fsh.calls[j].tags)

\* a pass has created a tag for its first document and patched its second
\* document, of the same owner, with it
C15_Witness ==
    /\ FsReturned
    /\ \E i \in 1..Len(fsh.calls) :
          /\ CreatedAt(i)
          /\ \E j, k \in Later(i) :
                /\ j < k
                /\ fsh.calls[j].call = "update_document_tags"
                /\ fsh.calls[k].call = "update_document_tags"
                /\ fsh.calls[j].doc # fsh.calls[k].doc
                /\ fsh.calls[k].ok
                /\ FsResolved(fsh.calls[k].doc) = fsh.calls[i].name

(***************************************************************************)
(* C16. full_sync applies the same per-document decision as reconcile.     *)
(***************************************************************************)
\* sync_document_owner_tag on the snapshot r of one iteration of full_sync,
\* after its three fetches
SdOn(r) ==
    SdDecide([SdIdle EXCEPT !.pc = "get_tags", !.document_id = r.doc.id,
                            !.doc = [owner |-> r.doc.owner, tags |-> r.doc.tags],
                            !.users = r.users, !.tags = r.tags])

\* counted as failed exactly when reconcile returns failure, as succeeded
\* exactly when it returns success
CountedAs(counted, s) ==
    /\ counted = "failed" <=> s.ret = "False"
    /\ counted = "succeeded" <=> s.ret = "True"

IsCreate(c, s) == c.call = "create_tag" /\ c.name = s.owner_tag_name
IsPatch(c, s) ==
    /\ c.call = "update_document_tags"
    /\ c.doc = s.document_id
    /\ c.tags = s.new_tag_ids

\* the iteration r sent what reconcile, from s on and given the same
\* responses, sends, and counted the document as reconcile returns
SameFrom(r, s, k) ==
    IF s.pc = "idle"
    THEN Len(r.calls) = k - 1 /\ CountedAs(r.counted, s)
    ELSE /\ Len(r.calls) = k
         /\ IsPatch(r.calls[k], s)
         /\ CountedAs(r.counted, SdUpdated(s, r.calls[k].ok))

SameDecision(r) ==
    LET s == SdOn(r)
    IN  IF s.pc = "create_tag"
        THEN /\ Len(r.calls) >= 1
             /\ IsCreate(r.calls[1], s)
             /\ SameFrom(r, SdCreated(s, r.calls[1].ok,
                                      IF r.calls[1].ok
                                      THEN tags_db[s.owner_tag_name] ELSE 0), 2)
        ELSE SameFrom(r, s, 1)

\* C16 as claimed: for each document of a pass, full_sync sends the
\* create-tag request and the patch that reconcile sends for the document
\* from the same snapshot of document, users and tags, and counts the
\* document as failed exactly when reconcile returns failure and as
\* succeeded exactly when reconcile returns success.
C16_SameDecision ==
    \A k \in 1..Len(fsh.decided) : SameDecision(fsh.decided[k])

(***************************************************************************)
(* C17. Success means tagged.                                              *)
(***************************************************************************)
\* the document of the call is owned by a user of the platform
SdOwnerExists ==
    /\ sd.document_id \in DOMAIN docs_db
    /\ docs_db[sd.document_id].owner \in DOMAIN users_db

\* the tag name of the owner of the document of the call
SdOwnerTagName ==
    get_owner_tag_name(tag_prefix, owner_tag_mapping,
                       users_db[docs_db[sd.document_id].owner])

\* C17 as claimed: when reconcile returns success for a document whose owner
\* is an existing user of the platform, and nobody else has written, the
\* tag named after the owner exists and its id is in the document's tag
\* list.
C17_SuccessMeansTagged ==
    SdReturned /\ sd.ret = "True" /\ SdOwnerExists =>
        /\ SdOwnerTagName \in DOMAIN tags_db
        /\ tags_db[SdOwnerTagName] \in TagSet(docs_db[sd.document_id].tags)

(***************************************************************************)
(* C18. Create only what is missing.                                       *)
(***************************************************************************)
\* C18 as claimed: a create-tag request for the name n is sent only when no
\* tag named n exists on the platform at the moment the request is sent,
\* also by a call whose tag fetch failed and by a pass working from its one
\* tag snapshot.
C18_CreateOnlyMissing ==
    \A c \in CreatesSent : ~c.existed

(***************************************************************************)
(* C19. full_sync fixed point.                                             *)
(***************************************************************************)
\* the pass follows a pass that returned failed = 0, and nobody else has
\* written to the platform since that one started
SecondPass ==
    /\ fsh.prev.no_failed
    /\ fsh.quiet

====
